---- MODULE Spec2Model ----
(***************************************************************************)
(* Model of signal_status_publisher.py: one batch run reads the flagged    *)
(* signals from KITS, diffs them against the published status dataset,     *)
(* normalizes the rows and submits upserts and deletion markers in one     *)
(* write call.                                                             *)
(*                                                                         *)
(* Python values are tagged tuples, so that 101 and "101" are different    *)
(* values and a conversion between them is a computation:                  *)
(*   <<"None">>  <<"int", n>>  <<"str", s>>  <<"bool", b>>                 *)
(*   <<"Decimal", tenths>>  <<"datetime", <<y, mo, d, h, mi, s>> >>        *)
(*   <<"dict", f>>   with f a function from key strings to values.         *)
(* A record (a Python dict) is a function from key strings to values; the  *)
(* empty dict is <<>>.                                                     *)
(***************************************************************************)
EXTENDS Integers, Sequences, FiniteSets, TLC

VARIABLES
    pc,                 \* position of main: the step to execute next
    runs,               \* number of runs started so far
    published,          \* the published status dataset (rows keyed by signal_id)
    assets,             \* the published signal asset dataset
    kits_sig_status,    \* main's local of that name
    socrata_sig_status, \* main's local of that name
    delete_signals,     \* main's local of that name
    signal_asset_data,  \* main's local of that name
    payload,            \* the argument of the last client.upsert call of the run
    writes,             \* number of client.upsert calls issued in the run
    trace,              \* the steps the run has executed, in order
    source_read,        \* the rows the database query returned in the run
    published_before,   \* the published dataset when the run started
    prev_done,          \* whether the run before this one completed
    prev_source_ids     \* the signal ids of the run before this one, if it completed

vars == <<pc, runs, published, assets, kits_sig_status, socrata_sig_status,
          delete_signals, signal_asset_data, payload, writes, trace,
          source_read, published_before, prev_done, prev_source_ids>>

----------------------------------------------------------------------------
(* Bounds of the model *)

MaxSource == 2
MaxAssets == 2
MaxRuns == 2

----------------------------------------------------------------------------
(* Python values *)

None == <<"None">>
PyInt(n) == <<"int", n>>
PyStr(s) == <<"str", s>>
PyBool(b) == <<"bool", b>>
PyDecimal(tenths) == <<"Decimal", tenths>>
PyDict(f) == <<"dict", f>>
PyDatetime(y, mo, d, h, mi, s) == <<"datetime", <<y, mo, d, h, mi, s>> >>
EmptyDict == <<>>

Digit == <<"0", "1", "2", "3", "4", "5", "6", "7", "8", "9">>

RECURSIVE NatToStr(_)
NatToStr(n) ==
    IF n < 10 THEN Digit[n + 1]
    ELSE NatToStr(n \div 10) \o Digit[(n % 10) + 1]

IntToStr(n) == IF n < 0 THEN "-" \o NatToStr(-n) ELSE NatToStr(n)

\* zero-padded two and four digit fields of the format string
Pad2(n) == IF n < 10 THEN "0" \o NatToStr(n) ELSE NatToStr(n)
Pad4(n) ==
    IF n < 10 THEN "000" \o NatToStr(n)
    ELSE IF n < 100 THEN "00" \o NatToStr(n)
    ELSE IF n < 1000 THEN "0" \o NatToStr(n)
    ELSE NatToStr(n)

\* str(x)
Str(x) ==
    CASE x[1] = "str" -> x
      [] x[1] = "int" -> PyStr(IntToStr(x[2]))
      [] x[1] = "None" -> PyStr("None")

\* truth value of x, as `if x` tests it
Truthy(x) ==
    CASE x[1] = "None" -> FALSE
      [] x[1] = "int" -> x[2] # 0
      [] x[1] = "str" -> x[2] # ""
      [] x[1] = "bool" -> x[2]
      [] x[1] = "dict" -> DOMAIN x[2] # {}
      [] OTHER -> TRUE

\* d.get(key)
Get(d, key) == IF key \in DOMAIN d THEN d[key] ELSE None

\* d.get(key, default)
GetDefault(d, key, default) == IF key \in DOMAIN d THEN d[key] ELSE default

\* d after d[key] = value
SetKey(d, key, value) ==
    [k \in (DOMAIN d) \cup {key} |-> IF k = key THEN value ELSE d[k]]

\* [s["signal_id"] for s in records]
SignalIds(records) == [i \in 1..Len(records) |-> records[i]["signal_id"]]

\* x in list
InList(x, list) == \E i \in 1..Len(list) : list[i] = x

\* the values of a list, as a set
Range(list) == {list[i] : i \in 1..Len(list)}

----------------------------------------------------------------------------
(* The passes of the pipeline *)

\* the ids left as the database delivers them
stringify_signal_ids_skipped(kits) == kits

stringify_signal_ids(kits) ==
    [i \in 1..Len(kits) |-> SetKey(kits[i], "signal_id", Str(kits[i]["signal_id"]))]

DeleteMarker(signal_id) == ("signal_id" :> signal_id) @@ (":deleted" :> PyBool(TRUE))

RECURSIVE DeleteLoop(_, _, _, _)
DeleteLoop(kits_ids, socrata_ids, i, acc) ==
    IF i > Len(socrata_ids) THEN acc
    ELSE DeleteLoop(kits_ids, socrata_ids, i + 1,
                    IF ~InList(socrata_ids[i], kits_ids)
                    THEN Append(acc, DeleteMarker(socrata_ids[i]))
                    ELSE acc)

\* the two id lists taken the wrong way round
identify_deletes_swapped(kits, socrata) ==
    DeleteLoop(SignalIds(socrata), SignalIds(kits), 1, <<>>)

\* the membership test dropped: every published record is marked
identify_deletes_all(kits, socrata) ==
    DeleteLoop(<<>>, SignalIds(socrata), 1, <<>>)

identify_deletes(kits, socrata) ==
    DeleteLoop(SignalIds(kits), SignalIds(socrata), 1, <<>>)

asset_fields == <<"location", "location_name", "primary_st", "cross_st">>

MatchedSignalList(kits_signal, asset_data) ==
    LET Matches(a) == a["signal_id"] = kits_signal["signal_id"]
    IN SelectSeq(asset_data, Matches)

\* the last match taken instead of the first
MergeOne_last(kits_signal, asset_data) ==
    LET matched_signal_list == MatchedSignalList(kits_signal, asset_data)
    IN IF matched_signal_list = <<>> THEN kits_signal
       ELSE LET matched_signal == matched_signal_list[Len(matched_signal_list)]
            IN [k \in (DOMAIN kits_signal) \cup Range(asset_fields) |->
                   IF k \in Range(asset_fields) THEN Get(matched_signal, k)
                   ELSE kits_signal[k]]

MergeOne(kits_signal, asset_data) ==
    LET matched_signal_list == MatchedSignalList(kits_signal, asset_data)
    IN IF matched_signal_list = <<>> THEN kits_signal
       ELSE LET matched_signal == matched_signal_list[1]
            IN [k \in (DOMAIN kits_signal) \cup Range(asset_fields) |->
                   IF k \in Range(asset_fields) THEN Get(matched_signal, k)
                   ELSE kits_signal[k]]

merge_signal_asset_data(kits, asset_data) ==
    [i \in 1..Len(kits) |-> MergeOne(kits[i], asset_data)]

\* dt.format("YYYY-MM-DDTHH:mm:ss")
FormatDatetime(dt) ==
    LET f == dt[2]
    IN PyStr(Pad4(f[1]) \o "-" \o Pad2(f[2]) \o "-" \o Pad2(f[3]) \o "T"
             \o Pad2(f[4]) \o ":" \o Pad2(f[5]) \o ":" \o Pad2(f[6]))

localize_operation_state_datetime(kits) ==
    [i \in 1..Len(kits) |->
        SetKey(kits[i], "operation_state_datetime",
               FormatDatetime(kits[i]["operation_state_datetime"]))]

set_processed_datetime(kits, now) ==
    [i \in 1..Len(kits) |-> SetKey(kits[i], "processed_datetime", FormatDatetime(now))]

\* int(x): an int is itself, a Decimal is truncated toward zero
ToInt(x) ==
    CASE x[1] = "int" -> x
      [] x[1] = "Decimal" ->
           PyInt(IF x[2] < 0 THEN -((-x[2]) \div 10) ELSE x[2] \div 10)

convert_decimals(kits) ==
    [i \in 1..Len(kits) |->
        [k \in DOMAIN kits[i] |->
            IF k \in {"operation_state", "plan_id"} THEN ToInt(kits[i][k])
            ELSE kits[i][k]]]

\* signal.get("location", {}) is an object with a .get method
HasGet(signal) == GetDefault(signal, "location", PyDict(EmptyDict))[1] = "dict"

FormatOne(signal) ==
    LET location == GetDefault(signal, "location", PyDict(EmptyDict))[2]
        lat == Get(location, "latitude")
        lon == Get(location, "longitude")
    IN IF Truthy(lat) /\ Truthy(lon)
       THEN SetKey(signal, "location",
                   PyStr("(" \o Str(lon)[2] \o ", " \o Str(lat)[2] \o ")"))
       ELSE signal

\* The records after the loop, and whether it raised (AttributeError): the
\* records before the offending one are already rewritten in place.
RECURSIVE FormatLoop(_, _)
FormatLoop(kits, i) ==
    IF i > Len(kits) THEN [records |-> kits, raised |-> FALSE]
    ELSE IF ~HasGet(kits[i]) THEN [records |-> kits, raised |-> TRUE]
    ELSE FormatLoop([kits EXCEPT ![i] = FormatOne(kits[i])], i + 1)

format_locations(kits) == FormatLoop(kits, 1)

----------------------------------------------------------------------------
(* The data the run reads *)

FLASH_STATUSES == {1, 2, 3}

\* status.DATETIME of the rows: 2024-01-15 08:30:00, naive, US/Central
StatusDatetime == PyDatetime(2024, 1, 15, 8, 30, 0)

KitsRow(signal_id, operation_state, plan_id) ==
    [operation_state_datetime |-> StatusDatetime,
     operation_state |-> operation_state,
     plan_id |-> plan_id,
     signal_id |-> signal_id]

\* [KITS].[INTERSECTION] joined to [KITS].[INTERSECTIONSTATUS]
KitsTable ==
    {KitsRow(PyInt(101), PyDecimal(20), PyDecimal(50)),
     KitsRow(PyInt(102), PyInt(1), PyInt(0)),
     KitsRow(PyInt(103), PyDecimal(30), PyDecimal(125)),
     KitsRow(PyInt(104), PyDecimal(0), PyDecimal(10))}

\* the rows the WHERE clause of the query keeps
FlaggedRows == {r \in KitsTable : ToInt(r["operation_state"])[2] \in FLASH_STATUSES}

Seqs(S, n) == UNION {[1..m -> S] : m \in 0..n}

\* the results the query can return: every row has the same DATETIME, so
\* ORDER BY status.DATETIME DESC allows every order
QueryResults == Seqs(FlaggedRows, MaxSource)

\* the signal_id keys of the status dataset before the first run
PublishedIds == {PyStr("101"), PyStr("103")}

StatusRow(signal_id) == [signal_id |-> signal_id]

NoDuplicateIds(rows) ==
    \A i, j \in 1..Len(rows) : rows[i]["signal_id"] = rows[j]["signal_id"] => i = j

\* signal_id is the row identifier of the status dataset: no key twice
PublishedDatasets ==
    {rows \in Seqs({StatusRow(id) : id \in PublishedIds}, Cardinality(PublishedIds)) :
        NoDuplicateIds(rows)}

Point(lat, lon) == PyDict(("latitude" :> lat) @@ ("longitude" :> lon))

Asset(signal_id, name) ==
    ("signal_id" :> signal_id) @@ ("location_name" :> name)
    @@ ("primary_st" :> PyStr("MAIN ST")) @@ ("cross_st" :> PyStr("5TH ST"))

\* rows of the signal asset dataset; a row has no key for a field that is null
AssetRecords ==
    {Asset(PyStr("101"), PyStr("Main & 5th"))
        @@ ("location" :> Point(PyStr("30.1"), PyStr("-97.7"))),
     Asset(PyStr("101"), PyStr("Main & 5th (dup)")),
     Asset(PyStr("101"), PyStr("Main & 5th"))
        @@ ("location" :> PyDict(EmptyDict)),
     Asset(PyStr("102"), PyStr("Oak & 1st"))
        @@ ("location" :> PyDict("latitude" :> PyStr("30.2"))),
     Asset(PyStr("102"), PyStr("Oak & 1st"))
        @@ ("location" :> Point(PyInt(0), PyStr("-97.8"))),
     ("signal_id" :> PyStr("103")) @@ ("location" :> Point(PyStr("30.3"), PyStr("-97.9")))}

AssetDatasets == Seqs(AssetRecords, MaxAssets)

\* arrow.now("US/Central") in the n-th run: runs are scheduled 5 minutes apart
Now(n) == PyDatetime(2024, 1, 15, 9, 5 * n, 7)

----------------------------------------------------------------------------
(* The write target *)

IsDeleteMarker(item) == ":deleted" \in DOMAIN item /\ Truthy(item[":deleted"])

HasKey(rows, signal_id) == \E i \in 1..Len(rows) : rows[i]["signal_id"] = signal_id

\* one item of an upsert payload applied to the dataset, keyed by signal_id
ApplyItem(rows, item) ==
    LET Keeps(r) == r["signal_id"] # item["signal_id"]
    IN IF IsDeleteMarker(item) THEN SelectSeq(rows, Keeps)
       ELSE IF HasKey(rows, item["signal_id"])
       THEN [i \in 1..Len(rows) |->
                IF rows[i]["signal_id"] = item["signal_id"] THEN item ELSE rows[i]]
       ELSE Append(rows, item)

RECURSIVE ApplyPayload(_, _)
ApplyPayload(rows, items) ==
    IF items = <<>> THEN rows
    ELSE ApplyPayload(ApplyItem(rows, Head(items)), Tail(items))

\* the markers put before the records
UpsertPayload_markers_first(kits, deletes) == deletes \o kits

\* the markers left out of the batch
UpsertPayload_no_markers(kits, deletes) == kits

\* the argument of client.upsert
UpsertPayload(kits, deletes) == kits \o deletes

\* the rows "signal_id in (<ids>)" selects
FilterAssets(asset_rows, fetch_signal_ids) ==
    LET Selected(a) == InList(a["signal_id"], fetch_signal_ids)
    IN SelectSeq(asset_rows, Selected)

----------------------------------------------------------------------------
(* main, step by step *)

Steps ==
    <<"get_kits_signal_status", "stringify_signal_ids", "get_socrata_data_status",
      "identify_deletes", "get_socrata_data_assets", "merge_signal_asset_data",
      "localize_operation_state_datetime", "set_processed_datetime",
      "convert_decimals", "format_locations", "upsert">>

TypeOK ==
    /\ pc \in Range(Steps) \cup {"idle", "done", "failed"}
    /\ runs \in 0..MaxRuns
    /\ writes \in 0..1

InitLocals ==
    /\ kits_sig_status = <<>>
    /\ socrata_sig_status = <<>>
    /\ delete_signals = <<>>
    /\ signal_asset_data = <<>>
    /\ payload = <<>>
    /\ writes = 0
    /\ trace = <<>>
    /\ source_read = <<>>

\* the fixed asset datasets of the multi-run specification
SomeAssetDatasets ==
    {<<>>,
     <<Asset(PyStr("101"), PyStr("Main & 5th"))
          @@ ("location" :> Point(PyStr("30.1"), PyStr("-97.7"))),
       Asset(PyStr("102"), PyStr("Oak & 1st"))>>}

Init ==
    /\ pc = "idle"
    /\ runs = 0
    /\ published \in PublishedDatasets
    /\ assets \in SomeAssetDatasets
    /\ published_before = published
    /\ prev_done = FALSE
    /\ prev_source_ids = {}
    /\ InitLocals

\* one run, against any asset dataset
InitPasses ==
    /\ pc = "idle"
    /\ runs = MaxRuns - 1
    /\ published \in PublishedDatasets
    /\ assets \in AssetDatasets
    /\ published_before = published
    /\ prev_done = FALSE
    /\ prev_source_ids = {}
    /\ InitLocals

\* the scheduler starts the script
Begin ==
    /\ pc \in {"idle", "done", "failed"}
    /\ runs < MaxRuns
    /\ runs' = runs + 1
    /\ pc' = "get_kits_signal_status"
    /\ kits_sig_status' = <<>>
    /\ socrata_sig_status' = <<>>
    /\ delete_signals' = <<>>
    /\ signal_asset_data' = <<>>
    /\ payload' = <<>>
    /\ writes' = 0
    /\ trace' = <<>>
    /\ source_read' = <<>>
    /\ published_before' = published
    /\ prev_done' = (pc = "done")
    /\ prev_source_ids' = IF pc = "done" THEN Range(SignalIds(kits_sig_status)) ELSE {}
    /\ UNCHANGED <<published, assets>>

\* the failed step is tried again
Raise_retry ==
    /\ pc' = pc
    /\ trace' = Append(trace, pc)

\* an uncaught exception at the current step ends the run
Raise ==
    /\ pc' = "failed"
    /\ trace' = Append(trace, pc)

GetKitsSignalStatus ==
    /\ pc = "get_kits_signal_status"
    /\ \E rows \in QueryResults :
          /\ kits_sig_status' = rows
          /\ source_read' = rows
    /\ pc' = "stringify_signal_ids"
    /\ trace' = Append(trace, pc)
    /\ UNCHANGED <<runs, published, assets, socrata_sig_status, delete_signals,
                   signal_asset_data, payload, writes, published_before,
                   prev_done, prev_source_ids>>

\* pymssql.connect or cursor.execute raises
GetKitsSignalStatusFails ==
    /\ pc = "get_kits_signal_status"
    /\ Raise
    /\ UNCHANGED <<runs, published, assets, kits_sig_status, socrata_sig_status,
                   delete_signals, signal_asset_data, payload, writes, source_read,
                   published_before, prev_done, prev_source_ids>>

StringifySignalIds ==
    /\ pc = "stringify_signal_ids"
    /\ kits_sig_status' = stringify_signal_ids(kits_sig_status)
    /\ pc' = "get_socrata_data_status"
    /\ trace' = Append(trace, pc)
    /\ UNCHANGED <<runs, published, assets, socrata_sig_status, delete_signals,
                   signal_asset_data, payload, writes, source_read,
                   published_before, prev_done, prev_source_ids>>

GetSocrataStatus ==
    /\ pc = "get_socrata_data_status"
    /\ socrata_sig_status' = published
    /\ pc' = "identify_deletes"
    /\ trace' = Append(trace, pc)
    /\ UNCHANGED <<runs, published, assets, kits_sig_status, delete_signals,
                   signal_asset_data, payload, writes, source_read,
                   published_before, prev_done, prev_source_ids>>

\* res.raise_for_status() raises
GetSocrataStatusFails ==
    /\ pc = "get_socrata_data_status"
    /\ Raise
    /\ UNCHANGED <<runs, published, assets, kits_sig_status, socrata_sig_status,
                   delete_signals, signal_asset_data, payload, writes, source_read,
                   published_before, prev_done, prev_source_ids>>

IdentifyDeletes ==
    /\ pc = "identify_deletes"
    /\ delete_signals' = identify_deletes(kits_sig_status, socrata_sig_status)
    /\ pc' = "get_socrata_data_assets"
    /\ trace' = Append(trace, pc)
    /\ UNCHANGED <<runs, published, assets, kits_sig_status, socrata_sig_status,
                   signal_asset_data, payload, writes, source_read,
                   published_before, prev_done, prev_source_ids>>

GetSocrataAssets ==
    /\ pc = "get_socrata_data_assets"
    /\ LET fetch_signal_ids == SignalIds(kits_sig_status)
       IN signal_asset_data' = FilterAssets(assets, fetch_signal_ids)
    /\ pc' = "merge_signal_asset_data"
    /\ trace' = Append(trace, pc)
    /\ UNCHANGED <<runs, published, assets, kits_sig_status, socrata_sig_status,
                   delete_signals, payload, writes, source_read,
                   published_before, prev_done, prev_source_ids>>

\* res.raise_for_status() raises
GetSocrataAssetsFails ==
    /\ pc = "get_socrata_data_assets"
    /\ Raise
    /\ UNCHANGED <<runs, published, assets, kits_sig_status, socrata_sig_status,
                   delete_signals, signal_asset_data, payload, writes, source_read,
                   published_before, prev_done, prev_source_ids>>

MergeSignalAssetData ==
    /\ pc = "merge_signal_asset_data"
    /\ kits_sig_status' = merge_signal_asset_data(kits_sig_status, signal_asset_data)
    /\ pc' = "localize_operation_state_datetime"
    /\ trace' = Append(trace, pc)
    /\ UNCHANGED <<runs, published, assets, socrata_sig_status, delete_signals,
                   signal_asset_data, payload, writes, source_read,
                   published_before, prev_done, prev_source_ids>>

LocalizeOperationStateDatetime ==
    /\ pc = "localize_operation_state_datetime"
    /\ kits_sig_status' = localize_operation_state_datetime(kits_sig_status)
    /\ pc' = "set_processed_datetime"
    /\ trace' = Append(trace, pc)
    /\ UNCHANGED <<runs, published, assets, socrata_sig_status, delete_signals,
                   signal_asset_data, payload, writes, source_read,
                   published_before, prev_done, prev_source_ids>>

SetProcessedDatetime ==
    /\ pc = "set_processed_datetime"
    /\ kits_sig_status' = set_processed_datetime(kits_sig_status, Now(runs))
    /\ pc' = "convert_decimals"
    /\ trace' = Append(trace, pc)
    /\ UNCHANGED <<runs, published, assets, socrata_sig_status, delete_signals,
                   signal_asset_data, payload, writes, source_read,
                   published_before, prev_done, prev_source_ids>>

\* the call of format_locations left out of main
ConvertDecimals_then_upsert ==
    /\ pc = "convert_decimals"
    /\ kits_sig_status' = convert_decimals(kits_sig_status)
    /\ pc' = "upsert"
    /\ trace' = Append(trace, pc)
    /\ UNCHANGED <<runs, published, assets, socrata_sig_status, delete_signals,
                   signal_asset_data, payload, writes, source_read,
                   published_before, prev_done, prev_source_ids>>

ConvertDecimals ==
    /\ pc = "convert_decimals"
    /\ kits_sig_status' = convert_decimals(kits_sig_status)
    /\ pc' = "format_locations"
    /\ trace' = Append(trace, pc)
    /\ UNCHANGED <<runs, published, assets, socrata_sig_status, delete_signals,
                   signal_asset_data, payload, writes, source_read,
                   published_before, prev_done, prev_source_ids>>

\* format_locations returns, or raises AttributeError with the records before
\* the offending one rewritten
FormatLocations ==
    /\ pc = "format_locations"
    /\ LET out == format_locations(kits_sig_status)
       IN /\ kits_sig_status' = out.records
          /\ pc' = IF out.raised THEN "failed" ELSE "upsert"
    /\ trace' = Append(trace, pc)
    /\ UNCHANGED <<runs, published, assets, socrata_sig_status, delete_signals,
                   signal_asset_data, payload, writes, source_read,
                   published_before, prev_done, prev_source_ids>>

\* client.upsert(SIGNAL_STATUS_RESOURCE_ID, kits_sig_status + delete_signals)
Upsert ==
    /\ pc = "upsert"
    /\ payload' = UpsertPayload(kits_sig_status, delete_signals)
    /\ writes' = writes + 1
    /\ published' = ApplyPayload(published, payload')
    /\ pc' = "done"
    /\ trace' = Append(trace, pc)
    /\ UNCHANGED <<runs, assets, kits_sig_status, socrata_sig_status, delete_signals,
                   signal_asset_data, source_read, published_before, prev_done, prev_source_ids>>

\* client.upsert raises; how much of the batch the target applied is its own affair
UpsertFails ==
    /\ pc = "upsert"
    /\ payload' = UpsertPayload(kits_sig_status, delete_signals)
    /\ writes' = writes + 1
    /\ \E n \in 0..Len(payload') :
          published' = ApplyPayload(published, SubSeq(payload', 1, n))
    /\ Raise
    /\ UNCHANGED <<runs, assets, kits_sig_status, socrata_sig_status, delete_signals,
                   signal_asset_data, source_read, published_before, prev_done, prev_source_ids>>

Next ==
    \/ Begin
    \/ GetKitsSignalStatus
    \/ GetKitsSignalStatusFails
    \/ StringifySignalIds
    \/ GetSocrataStatus
    \/ GetSocrataStatusFails
    \/ IdentifyDeletes
    \/ GetSocrataAssets
    \/ GetSocrataAssetsFails
    \/ MergeSignalAssetData
    \/ LocalizeOperationStateDatetime
    \/ SetProcessedDatetime
    \/ ConvertDecimals
    \/ FormatLocations
    \/ Upsert
    \/ UpsertFails

\* consecutive runs against a fixed asset dataset
Spec == Init /\ [][Next]_vars

\* one run against any asset dataset
SpecPasses == InitPasses /\ [][Next]_vars

----------------------------------------------------------------------------
(* Properties *)

Last(list) == list[Len(list)]

Executed(step) == InList(step, trace)

\* the string forms of the signal ids of the rows the query returned
SourceIdStrings == {Str(source_read[i]["signal_id"]) : i \in 1..Len(source_read)}

Keys(rows) == {rows[i]["signal_id"] : i \in 1..Len(rows)}

\* the ids of P no record of S carries, in the order of P
AbsentIds(S, P) ==
    LET Absent(id) == \A i \in 1..Len(S) : S[i]["signal_id"] # id
    IN SelectSeq(SignalIds(P), Absent)

IsMarkerFor(item, id) ==
    /\ DOMAIN item = {"signal_id", ":deleted"}
    /\ item["signal_id"] = id
    /\ item[":deleted"] = PyBool(TRUE)

\* C1: once identify_deletes has run, delete_signals holds exactly one marker
\* {signal_id, ":deleted": true} per published record whose signal_id no source
\* record carries, in the order of the published records, and nothing else.
C1_IdentifyDeletes ==
    Executed("identify_deletes") =>
        LET absent == AbsentIds(kits_sig_status, socrata_sig_status)
        IN /\ Len(delete_signals) = Len(absent)
           /\ \A i \in 1..Len(absent) : IsMarkerFor(delete_signals[i], absent[i])
           /\ (kits_sig_status = <<>> => Len(delete_signals) = Len(socrata_sig_status))
           /\ (socrata_sig_status = <<>> => delete_signals = <<>>)

\* two published records, one kept and one marked
C1_Witness ==
    /\ Executed("identify_deletes")
    /\ Len(socrata_sig_status) = 2
    /\ Len(delete_signals) = 1
    /\ delete_signals[1]["signal_id"] = socrata_sig_status[2]["signal_id"]
    /\ kits_sig_status # <<>>

\* C2: in the payload of the write call no signal_id is both upserted and
\* deleted; every upserted id is the string form of a source id, every marked
\* id was published before the run and is not the string form of a source id.
C2_PayloadDisjoint ==
    writes = 1 =>
        LET upserts == {i \in 1..Len(payload) : ~IsDeleteMarker(payload[i])}
            markers == {i \in 1..Len(payload) : IsDeleteMarker(payload[i])}
        IN /\ \A i \in upserts, j \in markers :
                 payload[i]["signal_id"] # payload[j]["signal_id"]
           /\ \A i \in upserts : payload[i]["signal_id"] \in SourceIdStrings
           /\ \A j \in markers :
                 /\ payload[j]["signal_id"] \in Keys(published_before)
                 /\ payload[j]["signal_id"] \notin SourceIdStrings

\* a payload with an upsert of a published id and a marker
C2_Witness ==
    /\ writes = 1
    /\ \E i, j \in 1..Len(payload) :
          /\ ~IsDeleteMarker(payload[i])
          /\ payload[i]["signal_id"] \in Keys(published_before)
          /\ IsDeleteMarker(payload[j])

\* C3: a run issues at most one write call and a completed run exactly one; its
\* payload is one record per source row, in source order, followed by the
\* markers of the published records whose id the source does not carry.
C3_SingleBatch ==
    /\ writes <= 1
    /\ (pc = "done" => writes = 1)
    /\ (writes = 1 =>
          LET n == Len(source_read)
              absent == {i \in 1..Len(published_before) :
                            published_before[i]["signal_id"] \notin SourceIdStrings}
          IN /\ Len(payload) = n + Cardinality(absent)
             /\ \A i \in 1..n :
                   /\ ~IsDeleteMarker(payload[i])
                   /\ payload[i]["signal_id"] = Str(source_read[i]["signal_id"])
             /\ \A i \in (n + 1)..Len(payload) : IsDeleteMarker(payload[i]))

\* source ids [101, 102] against published ids ["101", "103"]
C3_Witness ==
    /\ pc = "done"
    /\ SignalIds(source_read) = <<PyInt(101), PyInt(102)>>
    /\ SignalIds(published_before) = <<PyStr("101"), PyStr("103")>>
    /\ Len(payload) = 3
    /\ IsMarkerFor(payload[3], PyStr("103"))

BeforeMerge(i) ==
    SetKey(source_read[i], "signal_id", Str(source_read[i]["signal_id"]))

MatchingAssets(i) ==
    {j \in 1..Len(signal_asset_data) :
        signal_asset_data[j]["signal_id"] = BeforeMerge(i)["signal_id"]}

FieldNames == {"location", "location_name", "primary_st", "cross_st"}

\* C5: right after merge_signal_asset_data a record with no matching asset is
\* as it was; a record with matches has the four fields of the first match
\* (None for a field that asset lacks) and its other keys as they were; the
\* asset records are as they were read.
C5_AssetMerge ==
    pc = "localize_operation_state_datetime" =>
        /\ Len(kits_sig_status) = Len(source_read)
        /\ signal_asset_data = FilterAssets(assets, SignalIds(kits_sig_status))
        /\ \A i \in 1..Len(source_read) :
              IF MatchingAssets(i) = {} THEN kits_sig_status[i] = BeforeMerge(i)
              ELSE LET first == signal_asset_data[
                                   CHOOSE j \in MatchingAssets(i) :
                                       \A k \in MatchingAssets(i) : j <= k]
                   IN /\ DOMAIN kits_sig_status[i] = DOMAIN BeforeMerge(i) \cup FieldNames
                      /\ \A f \in FieldNames :
                            kits_sig_status[i][f] =
                                IF f \in DOMAIN first THEN first[f] ELSE None
                      /\ \A k \in DOMAIN BeforeMerge(i) \ FieldNames :
                            kits_sig_status[i][k] = BeforeMerge(i)[k]

\* one record with two differing matches, one record with none
C5_Witness ==
    /\ pc = "localize_operation_state_datetime"
    /\ \E i \in 1..Len(source_read) : MatchingAssets(i) = {}
    /\ \E i \in 1..Len(source_read) :
          /\ Cardinality(MatchingAssets(i)) = 2
          /\ signal_asset_data[1] # signal_asset_data[2]

\* the record carries a coordinate pair with both components
BothCoordinates(signal) ==
    /\ "location" \in DOMAIN signal
    /\ signal["location"][1] = "dict"
    /\ {"latitude", "longitude"} \subseteq DOMAIN signal["location"][2]

FormattedLocation(signal) ==
    LET point == signal["location"][2]
    IN PyStr("(" \o Str(point["longitude"])[2] \o ", "
             \o Str(point["latitude"])[2] \o ")")

\* C6: format_locations, applied to the records the earlier passes produce,
\* does not raise, replaces location by "(longitude, latitude)" exactly in the
\* records that carry both coordinates, and leaves every other record alone.
C6_FormatLocations ==
    pc = "format_locations" =>
        LET out == format_locations(kits_sig_status)
        IN /\ ~out.raised
           /\ \A i \in 1..Len(kits_sig_status) :
                 out.records[i] =
                     IF BothCoordinates(kits_sig_status[i])
                     THEN SetKey(kits_sig_status[i], "location",
                                 FormattedLocation(kits_sig_status[i]))
                     ELSE kits_sig_status[i]

\* C7: after all passes have run, a second application of stringify_signal_ids,
\* of convert_decimals and of format_locations completes and changes nothing.
C7_Idempotent ==
    pc = "upsert" =>
        /\ stringify_signal_ids(kits_sig_status) = kits_sig_status
        /\ convert_decimals(kits_sig_status) = kits_sig_status
        /\ ~format_locations(kits_sig_status).raised
        /\ format_locations(kits_sig_status).records = kits_sig_status

\* C8: a failed run takes no further step (the next step is the next run's
\* start); a run that failed before the write call issued no write and left the
\* published dataset as it was; no run issues a second write call.
C8_NoCatchNoRetry ==
    [][/\ (pc = "failed" => pc' = "get_kits_signal_status" /\ runs' = runs + 1)
       /\ (pc' = "failed" /\ pc # "failed" =>
              /\ Last(trace') = pc
              /\ (pc # "upsert" =>
                     writes' = 0 /\ payload' = <<>> /\ published' = published_before'))
       /\ writes' <= 1]_vars

\* a run that failed at the asset read with deletions pending
C8_Witness ==
    /\ pc = "failed"
    /\ Last(trace) = "get_socrata_data_assets"
    /\ delete_signals # <<>>
    /\ published = published_before

IsStrId(record) == record["signal_id"][1] = "str"

\* C9: the steps run one at a time in the order database query, id
\* stringification, published-status read, reconciliation, asset read, asset
\* merge, timestamp localization, processed-time stamping, type coercion,
\* location formatting, write; a completed run has run each exactly once, and
\* reconciliation compares string ids on both sides.
C9_StepOrder ==
    LET order == <<"get_kits_signal_status", "stringify_signal_ids",
                   "get_socrata_data_status", "identify_deletes",
                   "get_socrata_data_assets", "merge_signal_asset_data",
                   "localize_operation_state_datetime", "set_processed_datetime",
                   "convert_decimals", "format_locations", "upsert">>
    IN /\ Len(trace) <= Len(order)
       /\ trace = SubSeq(order, 1, Len(trace))
       /\ (pc = "done" => trace = order)
       /\ (pc = "identify_deletes" =>
              /\ \A i \in 1..Len(kits_sig_status) : IsStrId(kits_sig_status[i])
              /\ \A i \in 1..Len(socrata_sig_status) : IsStrId(socrata_sig_status[i]))

\* a completed run over two rows
C9_Witness ==
    /\ pc = "done"
    /\ Len(trace) = 11
    /\ Len(source_read) = 2

\* C10: a completed run that follows a completed run with the same set of source
\* ids computes no deletion and keeps the published keys; in every completed
\* run a key published before the run is gone after it exactly when the run's
\* source read does not carry it, and exactly those keys are marked.
C10_ConsecutiveRuns ==
    pc = "done" =>
        /\ (prev_done /\ prev_source_ids = SourceIdStrings =>
               delete_signals = <<>> /\ Keys(published) = Keys(published_before))
        /\ \A id \in Keys(published_before) :
               /\ (id \notin Keys(published)) <=> (id \notin SourceIdStrings)
               /\ (id \in Keys(delete_signals)) <=> (id \notin SourceIdStrings)

\* a second completed run over the same non-empty id set
C10_Witness ==
    /\ pc = "done"
    /\ runs = 2
    /\ prev_done
    /\ prev_source_ids = SourceIdStrings
    /\ SourceIdStrings # {}
    /\ Keys(published) = Keys(published_before)

====
